---------------------------- MODULE Spec2Model ----------------------------
(***************************************************************************)
(* Model of the password generator and of the two command-line entry       *)
(* points of ptokito/configuration-as-code-CICD (src/app.py,               *)
(* src/hello_world.py) and of the import done by src/test_app.py.          *)
(*                                                                         *)
(* A Python str is modelled as a sequence of one-character strings.        *)
(***************************************************************************)
EXTENDS Integers, Sequences, FiniteSets, TLC

(***************************************************************************)
(* Bounds of the exploration.                                              *)
(***************************************************************************)
\* largest requested length explored by the sequential specification
MaxLength == 5
\* number of characters of each character set the random source is explored on
MaxPick == 1
\* number of concurrent callers of generate_password
NumThreads == 2

(***************************************************************************)
(* Constants of the program.                                               *)
(***************************************************************************)
\* string.ascii_lowercase
lowercase ==
    << "a", "b", "c", "d", "e", "f", "g", "h", "i", "j", "k", "l", "m",
       "n", "o", "p", "q", "r", "s", "t", "u", "v", "w", "x", "y", "z" >>

\* string.ascii_uppercase
uppercase ==
    << "A", "B", "C", "D", "E", "F", "G", "H", "I", "J", "K", "L", "M",
       "N", "O", "P", "Q", "R", "S", "T", "U", "V", "W", "X", "Y", "Z" >>

\* string.digits
digits ==
    << "0", "1", "2", "3", "4", "5", "6", "7", "8", "9" >>

\* "!@#$%^&*"
special_chars ==
    << "!", "@", "#", "$", "%", "^", "&", "*" >>

\* a filler alphabet that also holds the space character
all_chars_space ==
    lowercase \o uppercase \o digits \o special_chars \o << " " >>

\* lowercase + uppercase + digits + special_chars
all_chars ==
    lowercase \o uppercase \o digits \o special_chars

\* the number of characters of the list literal, the 4 of range(length - 4)
Mandatory ==
    4

\* the length display_password asks for
DisplayLength ==
    16

\* the length run_tests asks for and compares with
TestLength ==
    16

(***************************************************************************)
(* Helpers.                                                                *)
(***************************************************************************)
Range(seq) ==
    { seq[i] : i \in DOMAIN seq }

Max(a, b) ==
    IF a >= b THEN a ELSE b

\* str.islower, str.isupper, str.isdigit on one ASCII character, and
\* membership of the string "!@#$%^&*"
AsciiLower ==
    { "a", "b", "c", "d", "e", "f", "g", "h", "i", "j", "k", "l", "m",
      "n", "o", "p", "q", "r", "s", "t", "u", "v", "w", "x", "y", "z" }

AsciiUpper ==
    { "A", "B", "C", "D", "E", "F", "G", "H", "I", "J", "K", "L", "M",
      "N", "O", "P", "Q", "R", "S", "T", "U", "V", "W", "X", "Y", "Z" }

AsciiDigit ==
    { "0", "1", "2", "3", "4", "5", "6", "7", "8", "9" }

SpecialSet ==
    { "!", "@", "#", "$", "%", "^", "&", "*" }

Classes ==
    { AsciiLower, AsciiUpper, AsciiDigit, SpecialSet }

(***************************************************************************)
(* The random source.  secrets.choice(seq) returns any element of seq;     *)
(* the exploration keeps the outcomes that lie in a sample S of the        *)
(* alphabet.  Sample(k) holds the first k characters of each set.          *)
(***************************************************************************)
Prefix(seq, k) ==
    { seq[i] : i \in 1..(IF k < Len(seq) THEN k ELSE Len(seq)) }

Sample(k) ==
    Prefix(lowercase, k) \cup Prefix(uppercase, k)
        \cup Prefix(digits, k) \cup Prefix(special_chars, k)

secrets_choice(seq, S) ==
    Range(seq) \cap S

\* a shuffle that leaves the list as it was built
Shuffled_unshuffled(x) ==
    { x }

\* SystemRandom().shuffle(x): x rearranged by any permutation of its positions
Shuffled(x) ==
    { [i \in 1..Len(x) |-> x[p[i]]] : p \in Permutations(1..Len(x)) }

\* the rotations of x, a part of Shuffled(x) small enough for long lists
Rotated(x) ==
    { [i \in 1..Len(x) |-> x[((i + k) % Len(x)) + 1]] : k \in 0..(Len(x) - 1) }

\* ''.join(password): the concatenation of the one-character strings
RECURSIVE join(_)
join(list) ==
    IF list = << >> THEN << >> ELSE << Head(list) >> \o join(Tail(list))

\* a range that counts a negative bound as its magnitude
RangeLen_magnitude(n) ==
    IF n >= 0 THEN n ELSE 0 - n

\* range(n): the number of iterations of "for _ in range(n)"
RangeLen(n) ==
    Max(n, 0)

\* a filling loop that counts one mandatory character too few
FillCount_offbyone(L) ==
    RangeLen(L - (Mandatory - 1))

\* range(length - 4): the number of filler characters
FillCount(L) ==
    RangeLen(L - Mandatory)

(***************************************************************************)
(* State.                                                                  *)
(***************************************************************************)
VARIABLES
    pc,           \* per call of generate_password: the position in the function
    length,       \* per call: the argument
    password,     \* per call: the local list
    iter,         \* per call: iterations of the filling loop done so far
    result,       \* per call: the returned str
    prog,         \* the script that runs: "app", "hello_world", "test_app" or "none"
    version,      \* sys.version_info, as << major, minor, micro >>
    argv_test,    \* '--test' in sys.argv
    mpc,          \* the position in main() or in the test module
    output,       \* the sections printed so far
    shown,        \* the password display_password printed
    test_results, \* the list run_tests builds
    failures,     \* the call sites at which generate_password raised
    rc            \* what main() returned, "none" before

callvars == << pc, length, password, iter, result >>

mainvars == << prog, version, argv_test, mpc, output, shown, test_results, failures, rc >>

vars == << callvars, mainvars >>

Threads == 1..NumThreads

\* the requested lengths explored, negative and zero included
Lengths == (0 - 1)..MaxLength

InitCalls ==
    /\ pc = [t \in Threads |-> "idle"]
    /\ length = [t \in Threads |-> 0]
    /\ password = [t \in Threads |-> << >>]
    /\ iter = [t \in Threads |-> 0]
    /\ result = [t \in Threads |-> << >>]

\* no script runs: generate_password is called directly
InitNoScript ==
    /\ prog = "none"
    /\ version = << 3, 6, 0 >>
    /\ argv_test = FALSE
    /\ mpc = "off"
    /\ output = << >>
    /\ shown = << >>
    /\ test_results = << >>
    /\ failures = {}
    /\ rc = "none"

\* generate_password(L) is called
Call(t, L) ==
    /\ pc[t] = "idle"
    /\ pc' = [pc EXCEPT ![t] = "build"]
    /\ length' = [length EXCEPT ![t] = L]
    /\ UNCHANGED << password, iter, result, mainvars >>

\* a list literal whose fourth character is drawn from the digits again
MandatoryLists_nospecial(S) ==
    { << a, b, c, d >> :
        a \in secrets_choice(lowercase, S), b \in secrets_choice(uppercase, S),
        c \in secrets_choice(digits, S), d \in secrets_choice(digits, S) }

\* password = [choice(lowercase), choice(uppercase), choice(digits), choice(special_chars)]
MandatoryLists(S) ==
    { << a, b, c, d >> :
        a \in secrets_choice(lowercase, S), b \in secrets_choice(uppercase, S),
        c \in secrets_choice(digits, S), d \in secrets_choice(special_chars, S) }

Build(t, S) ==
    /\ pc[t] = "build"
    /\ \E m \in MandatoryLists(S) :
           password' = [password EXCEPT ![t] = m]
    /\ iter' = [iter EXCEPT ![t] = 0]
    /\ pc' = [pc EXCEPT ![t] = "fill"]
    /\ UNCHANGED << length, result, mainvars >>

\* one iteration of: for _ in range(length - 4): password.append(choice(all_chars))
Appended(list, S) ==
    { Append(list, c) : c \in secrets_choice(all_chars, S) }

\* a filling loop that appends to one list shared by every call
Fill_shared(t, S) ==
    /\ pc[t] = "fill"
    /\ iter[t] < FillCount(length[t])
    /\ \E l \in Appended(password[t], S) :
           password' = [u \in Threads |-> IF pc[u] = "fill" THEN l ELSE password[u]]
    /\ iter' = [iter EXCEPT ![t] = iter[t] + 1]
    /\ UNCHANGED << pc, length, result, mainvars >>

Fill(t, S) ==
    /\ pc[t] = "fill"
    /\ iter[t] < FillCount(length[t])
    /\ \E l \in Appended(password[t], S) :
           password' = [password EXCEPT ![t] = l]
    /\ iter' = [iter EXCEPT ![t] = iter[t] + 1]
    /\ UNCHANGED << pc, length, result, mainvars >>

\* the loop is over: shuffle in place, join and return
ShuffleReturn(t) ==
    /\ pc[t] = "fill"
    /\ iter[t] >= FillCount(length[t])
    /\ \E s \in Shuffled(password[t]) :
           /\ password' = [password EXCEPT ![t] = s]
           /\ result' = [result EXCEPT ![t] = join(s)]
    /\ pc' = [pc EXCEPT ![t] = "done"]
    /\ UNCHANGED << length, iter, mainvars >>

(***************************************************************************)
(* One caller, every length of Lengths.                                    *)
(***************************************************************************)
Init ==
    InitCalls /\ InitNoScript

Next ==
    \/ \E L \in Lengths : Call(1, L)
    \/ Build(1, Sample(MaxPick))
    \/ Fill(1, Sample(MaxPick))
    \/ ShuffleReturn(1)

Spec == Init /\ [][Next]_vars

(***************************************************************************)
(* Properties of one call.                                                 *)
(***************************************************************************)
Returned(t) ==
    pc[t] = "done"

HasClass(str, cls) ==
    \E i \in DOMAIN str : str[i] \in cls

ClassesOf(c) ==
    { cls \in Classes : c \in cls }

Count(seq, c) ==
    Cardinality({ i \in DOMAIN seq : seq[i] = c })

IsPermutationOf(a, b) ==
    /\ Len(a) = Len(b)
    /\ \A c \in Range(a) \cup Range(b) : Count(a, c) = Count(b, c)

\* C1: a call with L >= 4 that has returned has returned exactly L characters,
\* whatever the random choices were.
Thm_C1_LengthIsL ==
    \A t \in Threads :
        (Returned(t) /\ length[t] >= Mandatory) => Len(result[t]) = length[t]

Wit_C1 ==
    Returned(1) /\ length[1] = Mandatory + 1 /\ Len(result[1]) = Mandatory + 1

\* C2: a call with L >= 4 that has returned has returned at least one lowercase
\* letter, one uppercase letter, one digit and one character of "!@#$%^&*":
\* the shuffle removed none of them.
Thm_C2_EveryClassPresent ==
    \A t \in Threads :
        (Returned(t) /\ length[t] >= Mandatory) =>
            \A cls \in Classes : HasClass(result[t], cls)

Wit_C2 ==
    /\ Returned(1)
    /\ length[1] > Mandatory
    /\ result[1][1] \in SpecialSet
    /\ \A cls \in Classes : HasClass(result[1], cls)

\* C3 (as claimed): a call with L < 4 never returns a sequence (it fails with
\* InvalidLength instead).
Cex_C3_ShortLengthNeverReturns ==
    \A t \in Threads : length[t] < Mandatory => ~Returned(t)

\* C4: when a call with L >= 4 is about to shuffle, for each of the four classes
\* a return is possible whose first character belongs to that class; and what
\* is returned is a permutation of the list that was built.
C4_AnyClassCanComeFirst ==
    \A t \in Threads :
        (pc[t] = "fill" /\ iter[t] >= FillCount(length[t]) /\ length[t] >= Mandatory) =>
            \A cls \in Classes :
                ENABLED (ShuffleReturn(t) /\ result'[t][1] \in cls)

C4_ReturnPermutesList ==
    \A t \in Threads :
        (pc[t] = "fill" /\ pc'[t] = "done") =>
            /\ IsPermutationOf(result'[t], password[t])
            /\ password'[t] = result'[t]

Thm_C4_PositionsNotFixed ==
    [] C4_AnyClassCanComeFirst /\ [][C4_ReturnPermutesList]_vars

Wit_C4 ==
    /\ Returned(1)
    /\ length[1] >= Mandatory
    /\ result[1][1] \in SpecialSet
    /\ result[1][Len(result[1])] \in AsciiLower

\* C6: every character of the list being built and of the returned sequence
\* belongs to exactly one of the four classes; the four character sets of the
\* program are pairwise disjoint and the filler alphabet is their union.
CharacterSets ==
    { Range(lowercase), Range(uppercase), Range(digits), Range(special_chars) }

Thm_C6_ExactlyOneClass ==
    /\ \A t \in Threads :
           /\ \A i \in DOMAIN password[t] : Cardinality(ClassesOf(password[t][i])) = 1
           /\ \A i \in DOMAIN result[t] : Cardinality(ClassesOf(result[t][i])) = 1
    /\ \A c \in Range(all_chars) : Cardinality(ClassesOf(c)) = 1
    /\ \A A \in CharacterSets : \A B \in CharacterSets : A # B => A \cap B = {}
    /\ Range(all_chars) = UNION CharacterSets
    /\ CharacterSets = Classes

Wit_C6 ==
    /\ Returned(1)
    /\ length[1] > Mandatory
    /\ \E i \in DOMAIN result[1] : \E j \in DOMAIN result[1] :
           result[1][i] \in AsciiDigit /\ result[1][j] \in AsciiDigit /\ i # j

\* C10: a call with L < 4 (0 and negative included) runs the filling loop zero
\* times and, once returned, has returned exactly 4 characters, one of each class.
Thm_C10_ShortLengthReturnsFour ==
    \A t \in Threads :
        length[t] < Mandatory =>
            /\ iter[t] = 0
            /\ Len(password[t]) \in { 0, Mandatory }
            /\ Returned(t) =>
                   /\ Len(result[t]) = Mandatory
                   /\ Len(result[t]) = Max(length[t], Mandatory)
                   /\ \A cls \in Classes :
                          Cardinality({ i \in DOMAIN result[t] : result[t][i] \in cls }) = 1

Wit_C10 ==
    Returned(1) /\ length[1] < 0 /\ Len(result[1]) = Mandatory

(***************************************************************************)
(* Concurrent callers.  Any thread may take the next step of its call; the *)
(* steps interleave freely.  Caller t asks for 4 or for 3 + (t % 3)         *)
(* characters, and the random source is explored on one character of each  *)
(* set.                                                                    *)
(***************************************************************************)
ConcLengths(t) ==
    { Mandatory, Mandatory - 1 + (t % 3) }

NextConc ==
    \E t \in Threads :
        \/ \E L \in ConcLengths(t) : Call(t, L)
        \/ Build(t, Sample(1))
        \/ Fill(t, Sample(1))
        \/ ShuffleReturn(t)

SpecConc == Init /\ [][NextConc]_vars

\* the local state of one call
Frame(t) ==
    << pc[t], length[t], password[t], iter[t], result[t] >>

\* C5: under any interleaving of concurrent calls, each returned sequence has
\* the length and the classes its own argument calls for (L characters when
\* L >= 4, the four mandatory ones otherwise), a step changes the local state of
\* one call only, and a returned result is never altered afterwards.
C5_OwnResult ==
    \A t \in Threads :
        Returned(t) =>
            /\ Len(result[t]) = Max(length[t], Mandatory)
            /\ \A cls \in Classes : HasClass(result[t], cls)
            /\ result[t] = password[t]

C5_StepIsLocal ==
    \A t \in Threads :
        /\ Frame(t)' # Frame(t) => \A u \in Threads \ {t} : Frame(u)' = Frame(u)
        /\ Returned(t) => Frame(t)' = Frame(t)

Thm_C5_CallsDoNotInterfere ==
    [] C5_OwnResult /\ [][C5_StepIsLocal]_vars

Wit_C5 ==
    /\ Returned(1) /\ length[1] = Mandatory
    /\ Returned(2) /\ length[2] = Mandatory + 1
    /\ Len(result[1]) = Mandatory
    /\ Len(result[2]) = Mandatory + 1
    /\ result[1][1] # result[2][1]

(***************************************************************************)
(* generate_password as one call, for the callers inside the scripts.      *)
(* Sm is the sample the four mandatory draws are explored on, Sf the       *)
(* sample of the filler draws; the shuffle is explored on the rotations.   *)
(***************************************************************************)
RECURSIVE Filled(_, _, _)
Filled(list, n, S) ==
    IF n = 0
        THEN { list }
        ELSE UNION { Filled(l, n - 1, S) : l \in Appended(list, S) }

generate_password(L, Sm, Sf) ==
    { join(s) :
        s \in UNION { Rotated(l) :
                l \in UNION { Filled(m, FillCount(L), Sf) : m \in MandatoryLists(Sm) } } }

\* the explored results of generate_password(L): every filler draw gives the
\* same character c, for each c of the sample
GenerateOutcomes(L) ==
    UNION { generate_password(L, Sample(1), { c }) : c \in Sample(1) }

(***************************************************************************)
(* The scripts: app.py and hello_world.py run main(), test_app.py imports  *)
(* the module app.                                                         *)
(***************************************************************************)
Programs ==
    { "app", "hello_world", "test_app" }

\* the interpreters that can run the scripts (f-strings, the secrets module)
PythonVersions ==
    { << 3, 6, 0 >>, << 3, 12, 4 >> }

\* the (3, 6) of sys.version_info >= (3, 6)
MinVersion ==
    << 3, 6 >>

\* the names the module src/app.py binds at import
AppNames ==
    { "sys", "platform", "os", "secrets", "string", "datetime",
      "generate_password", "get_tech_stack", "print_header",
      "print_tech_stack_info", "display_password", "get_build_info",
      "print_build_info", "run_tests", "main" }

\* Python's ordering of tuples
RECURSIVE TupleLess(_, _)
TupleLess(a, b) ==
    IF a = << >> THEN b # << >>
    ELSE IF b = << >> THEN FALSE
    ELSE IF Head(a) # Head(b) THEN Head(a) < Head(b)
    ELSE TupleLess(Tail(a), Tail(b))

TupleGE(a, b) ==
    ~TupleLess(a, b)

\* all(result for _, result in test_results)
all_passed(results) ==
    \A i \in DOMAIN results : results[i][2]

InitMain ==
    /\ InitCalls
    /\ prog \in Programs
    /\ version \in PythonVersions
    /\ argv_test \in BOOLEAN
    /\ mpc = "start"
    /\ output = << >>
    /\ shown = << >>
    /\ test_results = << >>
    /\ failures = {}
    /\ rc = "none"

\* app.main: print_header()
print_header ==
    /\ prog = "app" /\ mpc = "start"
    /\ output' = Append(output, "header")
    /\ mpc' = "tech"
    /\ UNCHANGED << callvars, prog, version, argv_test, shown, test_results, failures, rc >>

\* app.main: print_tech_stack_info()
print_tech_stack_info ==
    /\ prog = "app" /\ mpc = "tech"
    /\ output' = Append(output, "tech_stack")
    /\ mpc' = "display"
    /\ UNCHANGED << callvars, prog, version, argv_test, shown, test_results, failures, rc >>

\* app.main: display_password(); an exception of generate_password leaves main
display_password ==
    /\ prog = "app" /\ mpc = "display"
    /\ \/ /\ failures' = failures \cup { "display" }
          /\ mpc' = "raised"
          /\ UNCHANGED << output, shown >>
       \/ \E pw \in GenerateOutcomes(DisplayLength) :
              /\ shown' = pw
              /\ output' = Append(output, "password")
              /\ mpc' = "build"
              /\ UNCHANGED failures
    /\ UNCHANGED << callvars, prog, version, argv_test, test_results, rc >>

\* app.main: print_build_info(), then the test of '--test' in sys.argv
print_build_info ==
    /\ prog = "app" /\ mpc = "build"
    /\ output' = Append(output, "build_info")
    /\ mpc' = IF argv_test THEN "t1" ELSE "finish"
    /\ UNCHANGED << callvars, prog, version, argv_test, shown, test_results, failures, rc >>

\* hello_world.main: print_banner()
print_banner ==
    /\ prog = "hello_world" /\ mpc = "start"
    /\ output' = Append(output, "header")
    /\ mpc' = "build"
    /\ UNCHANGED << callvars, prog, version, argv_test, shown, test_results, failures, rc >>

\* hello_world.main: get_build_info(), print_build_stack(), then the test of argv
print_build_stack ==
    /\ prog = "hello_world" /\ mpc = "build"
    /\ output' = Append(output, "build_info")
    /\ mpc' = IF argv_test THEN "t1" ELSE "finish"
    /\ UNCHANGED << callvars, prog, version, argv_test, shown, test_results, failures, rc >>

\* run_tests, test 1 (both scripts): the banner of the tests, test_results = [],
\* then the version check
TestVersion ==
    /\ prog \in { "app", "hello_world" } /\ mpc = "t1"
    /\ output' = Append(output, "tests_banner")
    /\ test_results' = << << "Python Version Check", TupleGE(version, MinVersion) >> >>
    /\ mpc' = "t2"
    /\ UNCHANGED << callvars, prog, version, argv_test, shown, failures, rc >>

\* run_tests, test 2 (both scripts): the imports succeed or raise ImportError
TestImport ==
    /\ prog \in { "app", "hello_world" } /\ mpc = "t2"
    /\ \E imported \in BOOLEAN :
           test_results' = Append(test_results, << "Module Import Check", imported >>)
    /\ mpc' = "t3"
    /\ UNCHANGED << callvars, prog, version, argv_test, output, shown, failures, rc >>

\* a test 3 without its try/except: the exception leaves run_tests and main
TestPasswordGeneration_uncaught ==
    /\ prog = "app" /\ mpc = "t3"
    /\ \/ /\ failures' = failures \cup { "generation" }
          /\ mpc' = "raised"
          /\ UNCHANGED test_results
       \/ \E pw \in GenerateOutcomes(TestLength) :
              /\ test_results' =
                     Append(test_results, << "Password Generation", Len(pw) = TestLength >>)
              /\ mpc' = "t4"
              /\ UNCHANGED failures
    /\ UNCHANGED << callvars, prog, version, argv_test, output, shown, rc >>

\* app.run_tests, test 3
TestPasswordGeneration ==
    /\ prog = "app" /\ mpc = "t3"
    /\ \/ /\ failures' = failures \cup { "generation" }
          /\ test_results' = Append(test_results, << "Password Generation", FALSE >>)
       \/ \E pw \in GenerateOutcomes(TestLength) :
              /\ test_results' =
                     Append(test_results, << "Password Generation", Len(pw) = TestLength >>)
              /\ UNCHANGED failures
    /\ mpc' = "t4"
    /\ UNCHANGED << callvars, prog, version, argv_test, output, shown, rc >>

\* app.run_tests, test 4, and the return of the list
TestPasswordComplexity ==
    /\ prog = "app" /\ mpc = "t4"
    /\ \/ /\ failures' = failures \cup { "complexity" }
          /\ test_results' = Append(test_results, << "Password Complexity", FALSE >>)
       \/ \E pw \in GenerateOutcomes(TestLength) :
              LET has_upper == \E i \in DOMAIN pw : pw[i] \in AsciiUpper
                  has_lower == \E i \in DOMAIN pw : pw[i] \in AsciiLower
                  has_digit == \E i \in DOMAIN pw : pw[i] \in AsciiDigit
                  has_special == \E i \in DOMAIN pw : pw[i] \in SpecialSet
              IN  /\ test_results' =
                         Append(test_results,
                                << "Password Complexity",
                                   has_upper /\ has_lower /\ has_digit /\ has_special >>)
                  /\ UNCHANGED failures
    /\ mpc' = "report"
    /\ UNCHANGED << callvars, prog, version, argv_test, output, shown, rc >>

\* hello_world.run_tests, test 3, and the return of the list
TestBasicMath ==
    /\ prog = "hello_world" /\ mpc = "t3"
    /\ test_results' = Append(test_results, << "Basic Math Check", 2 + 2 = 4 >>)
    /\ mpc' = "report"
    /\ UNCHANGED << callvars, prog, version, argv_test, output, shown, failures, rc >>

\* a report that returns 0 whatever the tests gave
ReportTests_always0 ==
    /\ prog \in { "app", "hello_world" } /\ mpc = "report"
    /\ output' = Append(output, "test_report")
    /\ rc' = 0
    /\ mpc' = "returned"
    /\ UNCHANGED << callvars, prog, version, argv_test, shown, test_results, failures >>

\* main (both scripts): the lines of the tests, all_passed, return 0 or 1
ReportTests ==
    /\ prog \in { "app", "hello_world" } /\ mpc = "report"
    /\ output' = Append(output, "test_report")
    /\ rc' = IF all_passed(test_results) THEN 0 ELSE 1
    /\ mpc' = "returned"
    /\ UNCHANGED << callvars, prog, version, argv_test, shown, test_results, failures >>

\* main (both scripts) without '--test': the closing lines, return 0
Finish ==
    /\ prog \in { "app", "hello_world" } /\ mpc = "finish"
    /\ output' = Append(output, "success")
    /\ rc' = 0
    /\ mpc' = "returned"
    /\ UNCHANGED << callvars, prog, version, argv_test, shown, test_results, failures >>

\* test_app.py: from app import app
ImportApp ==
    /\ prog = "test_app" /\ mpc = "start"
    /\ mpc' = IF "app" \in AppNames THEN "collected" ELSE "import_error"
    /\ UNCHANGED << callvars, prog, version, argv_test, output, shown, test_results,
                    failures, rc >>

NextMain ==
    \/ print_header
    \/ print_tech_stack_info
    \/ display_password
    \/ print_build_info
    \/ print_banner
    \/ print_build_stack
    \/ TestVersion
    \/ TestImport
    \/ TestPasswordGeneration
    \/ TestPasswordComplexity
    \/ TestBasicMath
    \/ ReportTests
    \/ Finish
    \/ ImportApp

SpecMain == InitMain /\ [][NextMain]_vars

(***************************************************************************)
(* Properties of the scripts.                                              *)
(***************************************************************************)
\* C7 (as claimed): the module app exposes an object named app, so that the
\* import of test_app.py succeeds and its client can be built.
Cex_C7_AppExposesApp ==
    prog = "test_app" => mpc # "import_error"

SomeTestFailed ==
    \E i \in DOMAIN test_results : ~test_results[i][2]

ExpectedReturn ==
    IF argv_test /\ SomeTestFailed THEN 1 ELSE 0

MainEnded ==
    prog \in { "app", "hello_world" } /\ mpc \in { "returned", "raised" }

HeaderAndBuildPrinted ==
    /\ Len(output) >= 2
    /\ output[1] = "header"
    /\ \E i \in DOMAIN output : output[i] = "build_info"

TestNames ==
    << "Python Version Check", "Module Import Check",
       "Password Generation", "Password Complexity" >>

RunTestsReturned ==
    prog = "app" /\ argv_test /\ mpc \in { "report", "returned" }

Thm_C9_RunTestsCatches ==
    /\ (prog = "app" /\ mpc = "raised") => failures = { "display" }
    /\ prog = "app" =>
           /\ Len(test_results) <= Len(TestNames)
           /\ \A i \in DOMAIN test_results :
                  /\ test_results[i][1] = TestNames[i]
                  /\ test_results[i][2] \in BOOLEAN
    /\ RunTestsReturned =>
           /\ Len(test_results) = 4
           /\ test_results[3][2] = ("generation" \notin failures)
           /\ test_results[4][2] = ("complexity" \notin failures)

Wit_C9 ==
    /\ RunTestsReturned
    /\ failures = { "generation" }
    /\ ~test_results[3][2]
    /\ test_results[4][2]

=============================================================================
